---------------------------- MODULE Spec2Model ----------------------------
(***************************************************************************)
(* AetherDraw: the gesture classifier (src/src/lib/gesture-recognition.ts) *)
(* and the detection loop of the AR canvas with its host page              *)
(* (src/src/components/ar/ARCanvas.tsx).                                   *)
(*                                                                         *)
(* Coordinates.  A landmark is <<x, y, z>> in lattice units: the           *)
(* normalised coordinate of the code is x / Grid.  All arithmetic of the   *)
(* code on these values (differences, squares, products with the canvas    *)
(* size) is exact on the lattice, so it is modelled with integers.         *)
(***************************************************************************)
EXTENDS Integers, Sequences, FiniteSets, TLC

\* Lattice resolution of the normalised landmark coordinates.
Grid == 10

\* Number of landmarks of a full hand (gesture-recognition.ts:50).
NumLandmarks == 21

Gestures == {"IDLE", "DRAW", "HOVER", "CHANGE_COLOR", "CLEAR", "ERASE"}

(***************************************************************************)
(* Hand frames.                                                            *)
(***************************************************************************)
Wrist == <<5, 9, 0>>

FingerPoses == {"ext", "curl", "half", "equal", "level"}

\* Base x of the index, middle, ring and pinky finger.
FingerX(k) == 4 + k

Mcp(k, pose) == <<FingerX(k), 7, 0>>

Pip(k, pose) ==
  IF pose \in {"half", "level"} THEN <<FingerX(k), 8, 0>> ELSE <<FingerX(k), 6, 0>>

\* "ext": beyond both joints.  "curl": nearer than both.  "half": beyond the
\* PIP joint but not beyond the MCP joint.  "equal": exactly as far from the
\* wrist as the PIP joint (off the image plane).  "level": beyond the PIP
\* joint and exactly as far from the wrist as the MCP joint.
Tip(k, pose) ==
  CASE pose = "ext"   -> <<FingerX(k), 5, 0>>
    [] pose = "curl"  -> <<FingerX(k), 8, 0>>
    [] pose = "half"  -> <<FingerX(k), 8, 1>>
    [] pose = "equal" -> <<FingerX(k), 9, 3>>
    [] pose = "level" -> <<FingerX(k), 9, 2>>

ThumbShapes == {"tucked", "out"}

Thumb(shape) ==
  IF shape = "tucked"
    THEN << <<4, 8, 0>>, <<4, 8, 1>>, <<5, 8, 1>>, <<5, 8, 2>> >>
    ELSE << <<4, 8, 0>>, <<3, 7, 0>>, <<2, 6, 0>>, <<1, 5, 0>> >>

\* The places an extended index fingertip takes: (0.5, 0.5) and (0.6, 0.5).
IndexTips == { <<5, 5, 0>>, <<6, 5, 0>> }

\* The 21 landmarks of a hand; landmark i of the code is element i + 1.
Hand(thumb, iPose, iTip, mPose, rPose, pPose) ==
  << Wrist >> \o Thumb(thumb)
    \o << Mcp(1, iPose), Pip(1, iPose), Pip(1, iPose),
          IF iPose = "ext" THEN iTip ELSE Tip(1, iPose) >>
    \o << Mcp(2, mPose), Pip(2, mPose), Pip(2, mPose), Tip(2, mPose) >>
    \o << Mcp(3, rPose), Pip(3, rPose), Pip(3, rPose), Tip(3, rPose) >>
    \o << Mcp(4, pPose), Pip(4, pPose), Pip(4, pPose), Tip(4, pPose) >>

\* A value handed to detectGesture: null, or an array of landmarks.
Null == [present |-> FALSE, lm |-> << >>]

Frame(lms) == [present |-> TRUE, lm |-> lms]

FullFrames ==
  { Frame(Hand(t, i, it, m, r, p)) :
      t \in ThumbShapes, i \in FingerPoses, it \in IndexTips,
      m \in FingerPoses, r \in FingerPoses, p \in FingerPoses }

\* Arrays that are too short: empty, a few landmarks, one landmark short.
ShortLengths == {0, 5, 20}

ShortFrames ==
  { Frame(SubSeq(Hand("out", "ext", <<5, 5, 0>>, "curl", "curl", "curl"), 1, n)) :
      n \in ShortLengths }

(***************************************************************************)
(* gesture-recognition.ts                                                  *)
(***************************************************************************)
Sq(a) == a * a

\* calculateDistance, squared.  Math.sqrt is strictly increasing on the
\* small integers the lattice produces, so comparing the squares decides
\* the comparisons of the code.
calculateDistance(p1, p2) ==
  Sq(p1[1] - p2[1]) + Sq(p1[2] - p2[2]) + Sq(p1[3] - p2[3])

\* Line 36 with >= in place of >.
isFingerExtended_NonStrict(tip, pip, mcp, wrist) ==
  LET tipDist == calculateDistance(tip, wrist)
      pipDist == calculateDistance(pip, wrist)
      mcpDist == calculateDistance(mcp, wrist)
  IN  tipDist >= pipDist /\ tipDist >= mcpDist

\* Lines 24-37.
isFingerExtended(tip, pip, mcp, wrist) ==
  LET tipDist == calculateDistance(tip, wrist)
      pipDist == calculateDistance(pip, wrist)
      mcpDist == calculateDistance(mcp, wrist)
  IN  tipDist > pipDist /\ tipDist > mcpDist

\* The landmark indices detectGesture reads.
ReadIndices == {0, 5, 6, 8, 9, 10, 12, 13, 14, 16, 17, 18, 20}

\* landmarks[i]
At(lms, i) == lms[i + 1]

isIndexExtended(lms)  == isFingerExtended(At(lms, 8), At(lms, 6), At(lms, 5), At(lms, 0))
isMiddleExtended(lms) == isFingerExtended(At(lms, 12), At(lms, 10), At(lms, 9), At(lms, 0))
isRingExtended(lms)   == isFingerExtended(At(lms, 16), At(lms, 14), At(lms, 13), At(lms, 0))
isPinkyExtended(lms)  == isFingerExtended(At(lms, 20), At(lms, 18), At(lms, 17), At(lms, 0))

\* The guard of line 50, with an off-by-one length.
TooShort_OffByOne(in) == ~in.present \/ Len(in.lm) < NumLandmarks - 1

\* !landmarks || landmarks.length < 21
TooShort(in) == ~in.present \/ Len(in.lm) < NumLandmarks

\* The decision chain with DRAW tested first and only on the index finger.
Decide_DrawFirst(i, m, r, p) ==
  IF i /\ ~m /\ ~r THEN "DRAW"
  ELSE IF i /\ ~m /\ ~r /\ p THEN "ERASE"
  ELSE IF i /\ m /\ ~r /\ ~p THEN "CHANGE_COLOR"
  ELSE IF i /\ m /\ r /\ p THEN "HOVER"
  ELSE IF ~i /\ ~m /\ ~r /\ ~p THEN "CLEAR"
  ELSE "IDLE"

\* Lines 73-98: the first matching shape wins.
Decide(i, m, r, p) ==
  IF i /\ ~m /\ ~r /\ p THEN "ERASE"
  ELSE IF i /\ m /\ ~r /\ ~p THEN "CHANGE_COLOR"
  ELSE IF i /\ m /\ r /\ p THEN "HOVER"
  ELSE IF i /\ ~m /\ ~r /\ ~p THEN "DRAW"
  ELSE IF ~i /\ ~m /\ ~r /\ ~p THEN "CLEAR"
  ELSE "IDLE"

\* The landmark indices a call reads: none when the guard returns early.
landmarksRead(in) == IF TooShort(in) THEN {} ELSE ReadIndices

\* detectGesture.  Reading a landmark past the end of the array gives
\* undefined, and calculateDistance on undefined throws a TypeError.
detectGesture(in) ==
  IF TooShort(in) THEN "IDLE"
  ELSE IF \E i \in ReadIndices : i + 1 > Len(in.lm) THEN "TypeError"
  ELSE Decide(isIndexExtended(in.lm), isMiddleExtended(in.lm),
              isRingExtended(in.lm), isPinkyExtended(in.lm))

(***************************************************************************)
(* State.                                                                  *)
(***************************************************************************)
VARIABLES
  \* ARCanvas refs (ARCanvas.tsx:31-37)
  lastGesture,      \* lastGestureRef
  lastPoint,        \* lastPointRef: << >> for null, << [x, y] >> for a point
  isDrawing,        \* isDrawingRef
  gestureCooldown,  \* gestureCooldownRef: Date.now() of the last colour change
  activeColorRef,   \* activeColorRef
  \* the canvas element and its 2-D context
  canvas,           \* [w, h]: the backing size
  ctx,              \* [lineCap, lineJoin, lineWidth, op]; the stroke style is
                    \* assigned before every stroke and its old value never read
  raster,           \* the painted sample pixels: a set of [at, paint]
  \* HomePage state (ARCanvas.tsx:367-371)
  activeColor, activeTool, currentGesture, clearTrigger,
  \* environment
  clock,            \* what Date.now() returns
  video,            \* [w, h]: videoWidth and videoHeight of the webcam stream
  \* what the last step was and what it did
  op,               \* "tick" after a run of predictWebcam, else "event"
  input,            \* the input of the last tick
  gestureCalls,     \* arguments of the onGestureChange calls of the last step
  colorCalls,       \* number of onColorChange calls of the last step
  rendered,         \* the segments stroked by the last step
  frameRequests,    \* number of requestAnimationFrame callbacks pending
  \* observers of the run
  lastFire,         \* << >>, or << Date.now() of the last onColorChange call >>
  runPoint,         \* << >>, or << the point of the DRAW tick just before >> when
                    \* no other gesture and no clear came after it
  \* the scripted driver
  script, pc, tally,
  \* the classifier on its own
  cInput, cResult, cReads

engineVars == <<lastGesture, lastPoint, isDrawing, gestureCooldown, activeColorRef>>
canvasVars == <<canvas, ctx, raster>>
pageVars   == <<activeColor, activeTool, currentGesture, clearTrigger>>
envVars    == <<clock, video>>
stepVars   == <<op, input, gestureCalls, colorCalls, rendered, frameRequests>>
obsVars    == <<lastFire, runPoint>>
scriptVars == <<script, pc, tally>>
classifyVars == <<cInput, cResult, cReads>>

vars == <<engineVars, canvasVars, pageVars, envVars, stepVars, obsVars,
          scriptVars, classifyVars>>

(***************************************************************************)
(* Bounds of the model.                                                    *)
(***************************************************************************)
\* Date.now() when the page starts: milliseconds since 1970, far above the
\* cooldown.  The model's clock runs from StartTime to MaxTime.
StartTime == 2000

MaxTime == 3600

\* The steps by which the clock advances between two reads.
TimeSteps == {1500, 1600}

\* How often the clear button is pressed.
MaxClears == 1

\* The resolutions the webcam stream takes.
VideoSizes == { [w |-> 1000, h |-> 1000], [w |-> 500, h |-> 500] }

(***************************************************************************)
(* Program constants.                                                      *)
(***************************************************************************)
\* ARCanvas.tsx:219
CooldownMs == 1500

\* ARCanvas.tsx:166, 207
PenWidth == 8

\* ARCanvas.tsx:358-365
PALETTE == << "#FF6B6B", "#4ECDC4", "#FFE66D", "#6C5CE7", "#55EFC4", "#FFFFFF" >>

Tools == {"pen", "eraser"}

\* A canvas element is created 300 x 150 with a context in its default state.
DefaultCanvas == [w |-> 300, h |-> 150]

DefaultContext ==
  [lineCap |-> "butt", lineJoin |-> "miter", lineWidth |-> 1,
   op |-> "source-over"]

(***************************************************************************)
(* The inputs of a tick.                                                   *)
(***************************************************************************)
\* kind "notReady":  the landmarker or the video is not there (lines 139-147)
\*      "noContext": the canvas or its context is missing (lines 153-156)
\*      "throws":    detectForVideo throws
\*      "noHand":    detectForVideo finds no hand
\*      "hand":      detectForVideo delivers the landmarks of one hand
TickInput(kind, frame) == [kind |-> kind, frame |-> frame]

NoInput == TickInput("none", Null)

TickFrames ==
  { Frame(Hand("out", "ext", <<5, 5, 0>>, "curl", "curl", "curl")),     \* DRAW
    Frame(Hand("tucked", "ext", <<6, 5, 0>>, "curl", "curl", "curl")),  \* DRAW
    Frame(Hand("out", "ext", <<5, 5, 0>>, "ext", "ext", "ext")),        \* HOVER
    Frame(Hand("out", "ext", <<5, 5, 0>>, "ext", "curl", "curl")),      \* CHANGE_COLOR
    Frame(Hand("out", "ext", <<5, 5, 0>>, "curl", "curl", "ext")),      \* ERASE
    Frame(Hand("tucked", "curl", <<5, 5, 0>>, "curl", "curl", "curl")), \* CLEAR
    Frame(Hand("out", "ext", <<5, 5, 0>>, "ext", "ext", "half")) }      \* IDLE

TickInputs ==
  { TickInput(k, Null) : k \in {"notReady", "noContext", "throws", "noHand"} }
    \cup { TickInput("hand", f) : f \in TickFrames }

(***************************************************************************)
(* HomePage (ARCanvas.tsx:350-468).                                        *)
(***************************************************************************)
\* PALETTE.indexOf, zero-based; -1 when absent.
IndexOf(color) ==
  IF \E i \in 1..Len(PALETTE) : PALETTE[i] = color
    THEN (CHOOSE i \in 1..Len(PALETTE) :
            PALETTE[i] = color /\ \A j \in 1..(i - 1) : PALETTE[j] # color) - 1
    ELSE -1

\* handleColorChange: the colour after prevColor.
NextColor(prevColor) == PALETTE[((IndexOf(prevColor) + 1) % Len(PALETTE)) + 1]

(***************************************************************************)
(* The canvas.                                                             *)
(***************************************************************************)
Point(x, y) == [x |-> x, y |-> y]

\* Lines 198-199 without the mirroring of x.
ToPixel_Unmirrored(tip, cv) ==
  Point((tip[1] * cv.w) \div Grid, (tip[2] * cv.h) \div Grid)

\* Lines 198-199: x is mirrored, both scale with the canvas size.
ToPixel(tip, cv) ==
  Point(((Grid - tip[1]) * cv.w) \div Grid, (tip[2] * cv.h) \div Grid)

\* The pixels the model watches: where the fingertips of IndexTips fall.
SamplePixels(cv) == { ToPixel(t, cv) : t \in IndexTips }

Min(a, b) == IF a < b THEN a ELSE b
Max(a, b) == IF a > b THEN a ELSE b

\* The watched pixels a round-capped stroke from a to b covers.
Covered(a, b, cv) ==
  { p \in SamplePixels(cv) :
      \/ p = a
      \/ p = b
      \/ /\ a.y = b.y /\ p.y = a.y
         /\ Min(a.x, b.x) <= p.x /\ p.x <= Max(a.x, b.x) }

\* ctx.stroke() of one segment under the given context state.
Stroke(pixels, seg, cv) ==
  LET hit == Covered(seg.from, seg.to, cv)
      kept == { e \in pixels : e.at \notin hit }
  IN  IF seg.op = "destination-out"
        THEN kept
        ELSE kept \cup { [at |-> p, paint |-> seg.strokeStyle] : p \in hit }

(***************************************************************************)
(* predictWebcam (ARCanvas.tsx:138-245), one animation frame.              *)
(***************************************************************************)
\* Line 179, firing on every tick.
GestureChanged_Always(gesture) == TRUE

\* Line 179: gesture !== lastGestureRef.current
GestureChanged(gesture) == gesture # lastGesture

\* Line 184, never resetting the drawing state.
StopsDrawing_Never(gesture) == FALSE

\* Line 184: gesture !== 'DRAW'
StopsDrawing(gesture) == gesture # "DRAW"

\* Line 219 with >= in place of >.
CooldownElapsed_Inclusive(now) == now - gestureCooldown >= CooldownMs

\* Line 219: now - gestureCooldownRef.current > 1500
CooldownElapsed(now) == now - gestureCooldown > CooldownMs

\* Lines 203-210: the segment stroked from the last point to pt.
Segment(from, pt, cx) ==
  [from |-> from, to |-> pt, strokeStyle |-> activeColorRef,
   lineWidth |-> PenWidth, lineCap |-> "round", lineJoin |-> "round",
   op |-> cx.op]

\* Line 160, setting the size of the canvas on every frame.
NeedsResize_Always == TRUE

\* Lines 160-167: the canvas takes the size of the video; setting the size
\* of a canvas resets its context and wipes its bitmap.
NeedsResize == canvas.w # video.w \/ canvas.h # video.h

\* The resize without lines 164-166.
ResizedContext_Defaults == DefaultContext

\* Lines 161-166: the context after the resize.
ResizedContext ==
  [DefaultContext EXCEPT !.lineCap = "round", !.lineJoin = "round",
                         !.lineWidth = PenWidth]

\* Nothing of the session changes and no callback runs.
QuietStep ==
  /\ UNCHANGED <<engineVars, pageVars>>
  /\ gestureCalls' = << >>
  /\ colorCalls' = 0
  /\ rendered' = << >>

\* The guards of lines 139-156 placed after the resize of lines 160-167.
SkipTick_Resizes ==
  /\ QuietStep
  /\ canvas' = IF NeedsResize THEN video ELSE canvas
  /\ ctx' = IF NeedsResize THEN ResizedContext ELSE ctx
  /\ raster' = IF NeedsResize THEN {} ELSE raster

\* Lines 139-156: a resource is missing; try again on the next frame.
SkipTick ==
  /\ QuietStep
  /\ UNCHANGED canvasVars

\* Line 232, taking every frame without a hand for a change of gesture.
HandLost_Always == TRUE

\* Line 232: lastGestureRef.current !== 'IDLE'
HandLost == lastGesture # "IDLE"

\* Lines 231-239: no hand in the frame.
NoHandTick ==
  /\ canvas' = IF NeedsResize THEN video ELSE canvas
  /\ ctx' = IF NeedsResize THEN ResizedContext ELSE ctx
  /\ raster' = IF NeedsResize THEN {} ELSE raster
  /\ rendered' = << >>
  /\ colorCalls' = 0
  /\ UNCHANGED <<gestureCooldown, activeColorRef, activeColor, activeTool, clearTrigger>>
  /\ IF HandLost
       THEN /\ lastGesture' = "IDLE"
            /\ gestureCalls' = << "IDLE" >>
            /\ currentGesture' = "IDLE"
            /\ isDrawing' = FALSE
            /\ lastPoint' = << >>
       ELSE /\ gestureCalls' = << >>
            /\ UNCHANGED <<lastGesture, currentGesture, isDrawing, lastPoint>>

\* The catch of line 240, handling the frame as one without a hand.
ThrowingTick_AsIdle == NoHandTick

\* Lines 160-171 when detectForVideo (or detectGesture) throws: the catch of
\* line 240 swallows it after the resize has been done.
ThrowingTick ==
  /\ QuietStep
  /\ canvas' = IF NeedsResize THEN video ELSE canvas
  /\ ctx' = IF NeedsResize THEN ResizedContext ELSE ctx
  /\ raster' = IF NeedsResize THEN {} ELSE raster

\* Lines 174-230: one hand, classified as gesture.
HandTick(frame, gesture) ==
  LET cv      == IF NeedsResize THEN video ELSE canvas
      cx      == IF NeedsResize THEN ResizedContext ELSE ctx
      px      == IF NeedsResize THEN {} ELSE raster
      changed == GestureChanged(gesture)
      reset   == changed /\ StopsDrawing(gesture)
      point   == IF reset THEN << >> ELSE lastPoint
      now     == clock
      pt      == ToPixel(At(frame.lm, 8), cv)
      strokes == IF gesture = "DRAW" /\ point # << >>
                   THEN << Segment(point[1], pt, cx) >> ELSE << >>
      fire    == gesture = "CHANGE_COLOR" /\ CooldownElapsed(now)
  IN  /\ canvas' = cv
      /\ lastGesture' = IF changed THEN gesture ELSE lastGesture
      /\ gestureCalls' = IF changed THEN << gesture >> ELSE << >>
      /\ currentGesture' = IF changed THEN gesture ELSE currentGesture
      /\ lastPoint' = IF gesture = "DRAW" THEN << pt >> ELSE point
      /\ isDrawing' = IF gesture = "DRAW" THEN TRUE
                      ELSE IF reset THEN FALSE ELSE isDrawing
      /\ rendered' = strokes
      /\ raster' = IF strokes # << >> THEN Stroke(px, strokes[1], cv) ELSE px
      /\ ctx' = IF strokes # << >>
                  THEN [cx EXCEPT !.lineWidth = PenWidth,
                                  !.lineCap = "round", !.lineJoin = "round"]
                  ELSE cx
      /\ colorCalls' = IF fire THEN 1 ELSE 0
      /\ gestureCooldown' = IF fire THEN now ELSE gestureCooldown
      \* onColorChange is handleColorChange (lines 381-395); the render it
      \* causes runs the effect of lines 44-46 before the next frame.
      /\ activeColor' = IF fire THEN NextColor(activeColor) ELSE activeColor
      /\ activeColorRef' = IF fire THEN NextColor(activeColor) ELSE activeColorRef
      /\ activeTool' = IF fire THEN "pen" ELSE activeTool
      /\ UNCHANGED clearTrigger

\* Line 244 inside the try block, so that a throw skips it.
FrameRequests_CatchHalts(in) == IF in.kind = "throws" THEN 0 ELSE 1

\* The requestAnimationFrame calls of one run of predictWebcam: line 145
\* when a resource is not ready, line 154 without canvas or context, line
\* 244 otherwise, after the try block.
FrameRequests(in) ==
  CASE in.kind = "notReady" -> 1
    [] in.kind = "noContext" -> 1
    [] OTHER -> 1

\* One run of the pending animation-frame callback.
predictWebcam(in) ==
  /\ frameRequests > 0
  /\ op' = "tick"
  /\ input' = in
  /\ frameRequests' = frameRequests - 1 + FrameRequests(in)
  /\ CASE in.kind \in {"notReady", "noContext"} -> SkipTick
       [] in.kind = "throws" -> ThrowingTick
       [] in.kind = "noHand" -> NoHandTick
       [] in.kind = "hand" ->
            LET gesture == detectGesture(in.frame)
            IN  IF gesture = "TypeError" THEN ThrowingTick
                ELSE HandTick(in.frame, gesture)

(***************************************************************************)
(* The other handlers.                                                     *)
(***************************************************************************)
\* What a step that is not a tick leaves of the per-step record.
NotATick ==
  /\ op' = "event"
  /\ input' = NoInput
  /\ gestureCalls' = << >>
  /\ colorCalls' = 0
  /\ rendered' = << >>
  /\ UNCHANGED frameRequests

\* Line 132, leaving the last point in place.
PointAfterClear_Kept == lastPoint

\* Line 132: lastPointRef.current = null
PointAfterClear == << >>

\* handleClear (lines 396-402) and the effect it triggers (lines 127-135):
\* clearRect over the whole canvas, and the last point forgotten.
clearSurface ==
  /\ clearTrigger' = clearTrigger + 1
  /\ raster' = {}
  /\ lastPoint' = PointAfterClear
  /\ UNCHANGED <<lastGesture, isDrawing, gestureCooldown, activeColorRef>>
  /\ UNCHANGED <<canvas, ctx, activeColor, activeTool, currentGesture>>

\* handleToolSelect, also forgetting the last point.
handleToolSelect_ResetsPoint(tool) ==
  /\ activeTool' = tool
  /\ lastPoint' = << >>
  /\ UNCHANGED <<lastGesture, isDrawing, gestureCooldown, activeColorRef>>
  /\ UNCHANGED <<canvasVars, activeColor, currentGesture, clearTrigger>>

\* handleToolSelect (lines 403-409): ARCanvas takes no activeTool prop
\* (lines 7-13), so only the page state changes.
handleToolSelect(tool) ==
  /\ activeTool' = tool
  /\ UNCHANGED <<engineVars, canvasVars, activeColor, currentGesture, clearTrigger>>

(***************************************************************************)
(* Scripts: the gesture sequences a scripted driver feeds to the loop.     *)
(***************************************************************************)
ScriptTickStep(g, tips) == [act |-> "tick", gesture |-> g, tips |-> tips, dts |-> {}]
ScriptWaitStep(dts)     == [act |-> "wait", gesture |-> "none", tips |-> {}, dts |-> dts]
ScriptClearStep         == [act |-> "clear", gesture |-> "none", tips |-> {}, dts |-> {}]

AnyWait == ScriptWaitStep({0, 500})

\* CHANGE_COLOR held at t, t + 500, t + 1000 and t + 1600.
CooldownScript ==
  << ScriptTickStep("CHANGE_COLOR", {}), ScriptWaitStep({500}),
     ScriptTickStep("CHANGE_COLOR", {}), ScriptWaitStep({500}),
     ScriptTickStep("CHANGE_COLOR", {}), ScriptWaitStep({600}),
     ScriptTickStep("CHANGE_COLOR", {}) >>

\* IDLE, DRAW, DRAW, HOVER, DRAW.
EndToEndScript ==
  << ScriptTickStep("IDLE", {}), AnyWait, ScriptTickStep("DRAW", {}), AnyWait,
     ScriptTickStep("DRAW", {}), AnyWait, ScriptTickStep("HOVER", {}), AnyWait,
     ScriptTickStep("DRAW", {}) >>

\* DRAW with the fingertip at (0.5, 0.5), then at (0.6, 0.5).
ContinuityScript ==
  << ScriptTickStep("DRAW", { <<5, 5, 0>> }), AnyWait,
     ScriptTickStep("DRAW", { <<6, 5, 0>> }) >>

\* A clear in the middle of a run of DRAW ticks.
ClearScript ==
  << ScriptTickStep("DRAW", {}), ScriptTickStep("DRAW", {}), ScriptClearStep,
     ScriptTickStep("DRAW", {}), ScriptTickStep("DRAW", {}) >>

\* Two DRAW ticks, then three ticks that are IDLE or without a hand.
IdleRunScript ==
  << ScriptTickStep("DRAW", {}), ScriptTickStep("DRAW", {}),
     ScriptTickStep("IDLE", {}), ScriptTickStep("IDLE", {}),
     ScriptTickStep("IDLE", {}) >>

\* Detection throws in the middle of a run of DRAW ticks.
ErrorScript ==
  << ScriptTickStep("DRAW", {}), ScriptTickStep("DRAW", {}),
     ScriptTickStep("THROW", {}), ScriptTickStep("DRAW", {}) >>

Scripts ==
  {CooldownScript, EndToEndScript, ContinuityScript, ClearScript, IdleRunScript,
   ErrorScript}

(***************************************************************************)
(* The application: frames, clicks, time and the camera, in any order      *)
(* (script = << >>), or as a script prescribes.                            *)
(***************************************************************************)
\* The gesture a tick works with: "none" when the tick does not get as far.
GestureOf(in) ==
  CASE in.kind = "hand" ->
         LET g == detectGesture(in.frame) IN IF g = "TypeError" THEN "none" ELSE g
    [] in.kind = "noHand" -> "IDLE"
    [] OTHER -> "none"

InitSession ==
  /\ lastGesture = "IDLE"
  /\ lastPoint = << >>
  /\ isDrawing = FALSE
  /\ gestureCooldown = 0
  /\ activeColorRef = PALETTE[2]
  /\ canvas = DefaultCanvas
  /\ ctx = DefaultContext
  /\ raster = {}
  /\ activeColor = PALETTE[2]
  /\ activeTool = "pen"
  /\ currentGesture = "IDLE"
  /\ clearTrigger = 0
  /\ op = "event"
  /\ input = NoInput
  /\ gestureCalls = << >>
  /\ colorCalls = 0
  /\ rendered = << >>
  /\ frameRequests = 1
  /\ lastFire = << >>
  /\ runPoint = << >>

\* Date.now() is far above the cooldown when the page is opened.
InitEngine ==
  /\ InitSession
  /\ clock = StartTime

EmptyTally == [gestureCalls |-> 0, segments |-> 0, fires |-> << >>]

NoClassify ==
  /\ cInput = Null
  /\ cResult = "none"
  /\ cReads = {}

Init ==
  /\ InitEngine
  /\ video \in VideoSizes
  /\ script \in Scripts \cup { << >> }
  /\ pc = 0
  /\ tally = EmptyTally
  /\ NoClassify

\* What the observers note of a tick.
ObserveTick(in) ==
  /\ lastFire' = IF colorCalls' = 1 THEN << clock >> ELSE lastFire
  /\ runPoint' = CASE GestureOf(in) = "DRAW" -> << ToPixel(At(in.frame.lm, 8), canvas') >>
                   [] GestureOf(in) = "none" -> runPoint
                   [] OTHER -> << >>

ObserveClear ==
  /\ runPoint' = << >>
  /\ UNCHANGED lastFire

Tick ==
  /\ script = << >>
  /\ \E in \in TickInputs : predictWebcam(in) /\ ObserveTick(in)
  /\ UNCHANGED <<envVars, scriptVars, classifyVars>>

ClearClick ==
  /\ script = << >>
  /\ clearTrigger < MaxClears
  /\ clearSurface
  /\ NotATick
  /\ ObserveClear
  /\ UNCHANGED <<envVars, scriptVars, classifyVars>>

ToolClick ==
  /\ script = << >>
  /\ \E tool \in Tools : handleToolSelect(tool)
  /\ NotATick
  /\ UNCHANGED <<envVars, obsVars, scriptVars, classifyVars>>

TimePasses ==
  /\ script = << >>
  /\ \E d \in TimeSteps : clock + d <= MaxTime /\ clock' = clock + d
  /\ NotATick
  /\ UNCHANGED <<engineVars, canvasVars, pageVars, video, obsVars, scriptVars, classifyVars>>

VideoChanges ==
  /\ script = << >>
  /\ \E v \in VideoSizes : v # video /\ video' = v
  /\ NotATick
  /\ UNCHANGED <<engineVars, canvasVars, pageVars, clock, obsVars, scriptVars, classifyVars>>

ScriptActive == script # << >> /\ pc < Len(script)

\* The inputs that present the gesture a script step asks for.
Presents(in, st) ==
  \/ /\ in.kind = "hand"
     /\ detectGesture(in.frame) = st.gesture
     /\ st.tips = {} \/ At(in.frame.lm, 8) \in st.tips
  \/ in.kind = "noHand" /\ st.gesture = "IDLE"
  \/ in.kind = "throws" /\ st.gesture = "THROW"

ScriptTick ==
  /\ ScriptActive
  /\ script[pc + 1].act = "tick"
  /\ \E in \in TickInputs :
       /\ Presents(in, script[pc + 1])
       /\ predictWebcam(in)
       /\ ObserveTick(in)
  /\ pc' = pc + 1
  /\ tally' = [gestureCalls |-> tally.gestureCalls + Len(gestureCalls'),
               segments |-> tally.segments + Len(rendered'),
               fires |-> Append(tally.fires, colorCalls' = 1)]
  /\ UNCHANGED <<envVars, script, classifyVars>>

ScriptWait ==
  /\ ScriptActive
  /\ script[pc + 1].act = "wait"
  /\ \E d \in script[pc + 1].dts : clock' = clock + d
  /\ pc' = pc + 1
  /\ NotATick
  /\ UNCHANGED <<engineVars, canvasVars, pageVars, video, obsVars, script, tally, classifyVars>>

ScriptClear ==
  /\ ScriptActive
  /\ script[pc + 1].act = "clear"
  /\ clearSurface
  /\ NotATick
  /\ ObserveClear
  /\ pc' = pc + 1
  /\ UNCHANGED <<envVars, script, tally, classifyVars>>

Next ==
  \/ Tick \/ ClearClick \/ ToolClick \/ TimePasses \/ VideoChanges
  \/ ScriptTick \/ ScriptWait \/ ScriptClear

Spec == Init /\ [][Next]_vars

(***************************************************************************)
(* The application under a clock that starts anywhere, as a session clock  *)
(* would: at 0, at the cooldown and just above it.                         *)
(***************************************************************************)
ClockStarts == {0, CooldownMs, CooldownMs + 1}

InitAnyClock ==
  /\ InitSession
  /\ clock \in ClockStarts
  /\ video = [w |-> 1000, h |-> 1000]
  /\ script = << >>
  /\ pc = 0
  /\ tally = EmptyTally
  /\ NoClassify

NextAnyClock == Tick \/ ClearClick \/ ToolClick \/ TimePasses

SpecAnyClock == InitAnyClock /\ [][NextAnyClock]_vars

(***************************************************************************)
(* The classifier on its own: one input, classified, and classified again  *)
(* after the thumb has moved.                                              *)
(***************************************************************************)
ClassifyInputs == {Null} \cup ShortFrames \cup FullFrames

\* The frame with landmarks 1-4 replaced.
WithThumb(in, shape) ==
  Frame([i \in 1..Len(in.lm) |->
           IF i \in 2..5 THEN Thumb(shape)[i - 1] ELSE in.lm[i]])

InitClassify ==
  /\ InitEngine
  /\ video \in VideoSizes
  /\ script = << >>
  /\ pc = 0
  /\ tally = EmptyTally
  /\ cInput \in ClassifyInputs
  /\ cResult = "none"
  /\ cReads = {}

Classify ==
  /\ cResult = "none"
  /\ cResult' = detectGesture(cInput)
  /\ cReads' = landmarksRead(cInput)
  /\ UNCHANGED <<cInput, engineVars, canvasVars, pageVars, envVars, stepVars,
                 obsVars, scriptVars>>

MoveThumb ==
  /\ cResult # "none"
  /\ cInput.present /\ Len(cInput.lm) = NumLandmarks
  /\ \E shape \in ThumbShapes :
       /\ cInput' = WithThumb(cInput, shape)
       /\ cInput' # cInput
  /\ cResult' = detectGesture(cInput')
  /\ cReads' = landmarksRead(cInput')
  /\ UNCHANGED <<engineVars, canvasVars, pageVars, envVars, stepVars,
                 obsVars, scriptVars>>

NextClassify == Classify \/ MoveThumb

SpecClassify == InitClassify /\ [][NextClassify]_vars

(***************************************************************************)
(* Properties.                                                             *)
(***************************************************************************)
\* A step that ran the loop body far enough to work with a gesture.
GestureTick == op' = "tick" /\ GestureOf(input') # "none"

\* C1: onGestureChange is called on a tick exactly when the tick's gesture
\* differs from lastGesture as it was before the tick, then once and with
\* that gesture; so no call repeats the gesture of the call before it.
C1_EdgeTriggered ==
  [][ GestureTick =>
        LET g == GestureOf(input')
        IN  /\ gestureCalls' = IF g # lastGesture THEN << g >> ELSE << >>
            /\ gestureCalls' # << >> => gestureCalls'[1] # currentGesture
            /\ currentGesture' = IF gestureCalls' # << >> THEN gestureCalls'[1]
                                 ELSE currentGesture ]_vars

C1_Witness ==
  /\ op = "tick" /\ input.kind = "noHand"
  /\ gestureCalls = << "IDLE" >>
  /\ lastGesture = "IDLE"

\* C2: on a tick onColorChange is called exactly when the gesture is
\* CHANGE_COLOR and Date.now() minus the time of the last call exceeds 1500;
\* the stored time becomes Date.now() when it is called and is otherwise
\* kept.  Held at t, t + 500, t + 1000, t + 1600, it is called at t and at
\* t + 1600 only.
C2_Cooldown ==
  /\ [][ op' = "tick" =>
           LET fire == GestureOf(input') = "CHANGE_COLOR"
                          /\ clock - gestureCooldown > 1500
           IN  /\ colorCalls' = IF fire THEN 1 ELSE 0
               /\ gestureCooldown' = IF fire THEN clock ELSE gestureCooldown ]_vars
  /\ [](script = CooldownScript /\ pc = Len(script)
          => tally.fires = << TRUE, FALSE, FALSE, TRUE >>)

C2_Witness ==
  /\ script = CooldownScript /\ pc = Len(script)
  /\ colorCalls = 1 /\ gestureCooldown = clock /\ clock = StartTime + 1600

\* C3: two calls of onColorChange are always more than 1500 ms apart,
\* whatever happened between them.
C3_FiresApart ==
  [][ colorCalls' = 1 =>
        /\ lastFire' = << clock >>
        /\ lastFire # << >> => clock - lastFire[1] > 1500 ]_vars

C3_Witness ==
  /\ colorCalls = 1 /\ lastFire = << clock >>
  /\ clock > StartTime /\ clearTrigger > 0
  /\ activeColor = PALETTE[4]

\* C4: a tick strokes a segment exactly when its gesture is DRAW and
\* lastPoint was set before it, which is exactly when the gesture tick just
\* before was a DRAW tick with no clear since.  IDLE, DRAW, DRAW, HOVER,
\* DRAW gives three onGestureChange calls and one segment.
C4_SegmentPerDrawPair ==
  /\ [][ op' = "tick" =>
           /\ Len(rendered') = IF GestureOf(input') = "DRAW" /\ lastPoint # << >>
                                 THEN 1 ELSE 0
           /\ Len(rendered') = IF GestureOf(input') = "DRAW" /\ runPoint # << >>
                                 THEN 1 ELSE 0 ]_vars
  /\ [](script = EndToEndScript /\ pc = Len(script)
          => tally.gestureCalls = 3 /\ tally.segments = 1)

C4_Witness ==
  /\ script = EndToEndScript /\ pc = Len(script)
  /\ lastGesture = "DRAW" /\ rendered = << >> /\ lastPoint # << >>
  /\ tally.segments = 1

\* C5: clearSurface wipes the raster and forgets the last point; a segment
\* always starts at the point of the DRAW tick just before it, recorded
\* after the latest clear, so the first DRAW tick after a clear strokes
\* nothing.
C5_ClearLaw ==
  /\ [][ clearTrigger' # clearTrigger => raster' = {} /\ lastPoint' = << >> ]_vars
  /\ [][ rendered' # << >> =>
           runPoint # << >> /\ rendered'[1].from = runPoint[1] ]_vars
  /\ [](script = ClearScript /\ pc = 4 => rendered = << >> /\ lastPoint # << >>)
  /\ [](script = ClearScript /\ pc = Len(script) => tally.segments = 2)

C5_Witness ==
  /\ script = ClearScript /\ pc = 4
  /\ rendered = << >> /\ lastPoint # << >> /\ isDrawing
  /\ tally.segments = 1

\* The decision table of the specification, row by row.
GestureTable(i, m, r, p) ==
  CASE <<i, m, r, p>> = <<TRUE, FALSE, FALSE, TRUE>>   -> "ERASE"
    [] <<i, m, r, p>> = <<TRUE, TRUE, FALSE, FALSE>>   -> "CHANGE_COLOR"
    [] <<i, m, r, p>> = <<TRUE, TRUE, TRUE, TRUE>>     -> "HOVER"
    [] <<i, m, r, p>> = <<TRUE, FALSE, FALSE, FALSE>>  -> "DRAW"
    [] <<i, m, r, p>> = <<FALSE, FALSE, FALSE, FALSE>> -> "CLEAR"
    [] OTHER -> "IDLE"

ValidFrame(in) == in.present /\ Len(in.lm) = NumLandmarks

\* C6: for a valid frame the result is the table's entry for the four
\* extension flags, and moving the thumb does not change it.
C6_Table ==
  /\ [](cResult # "none" /\ ValidFrame(cInput) =>
          cResult = GestureTable(isIndexExtended(cInput.lm), isMiddleExtended(cInput.lm),
                                 isRingExtended(cInput.lm), isPinkyExtended(cInput.lm)))
  /\ [][ cResult # "none" /\ cInput' # cInput => cResult' = cResult ]_vars

C6_Witness ==
  /\ cResult = "IDLE" /\ ValidFrame(cInput)
  /\ isIndexExtended(cInput.lm) /\ isMiddleExtended(cInput.lm)
  /\ isRingExtended(cInput.lm) /\ ~isPinkyExtended(cInput.lm)
  /\ cInput.lm[5] = Thumb("out")[4]

\* C7: null and arrays of fewer than 21 landmarks give IDLE, with no
\* landmark read and nothing thrown.
C7_ShortIsIdle ==
  cResult # "none" /\ (~cInput.present \/ Len(cInput.lm) < 21)
    => cResult = "IDLE" /\ cReads = {}

C7_Witness ==
  cResult = "IDLE" /\ cInput.present /\ Len(cInput.lm) = 20

\* 0.6 * new + 0.4 * previous, per axis.
Smoothed(new, prev) ==
  Point((6 * new.x + 4 * prev.x) \div 10, (6 * new.y + 4 * prev.y) \div 10)

\* C8: a segment ends at the smoothed point, which is also the new
\* lastPoint; fingertip (0.5, 0.5) then (0.6, 0.5) on 1000 x 1000 ends the
\* segment at (440, 500).
C8_Smoothing ==
  /\ op = "tick" /\ rendered # << >> =>
       LET new == ToPixel(At(input.frame.lm, 8), canvas)
           end == Smoothed(new, rendered[1].from)
       IN  rendered[1].to = end /\ lastPoint = << end >>
  /\ script = ContinuityScript /\ pc = Len(script) /\ canvas = [w |-> 1000, h |-> 1000]
       => rendered # << >> /\ rendered[1].to = Point(440, 500)

\* C9: a segment is stroked as activeTool says: the eraser erases, with a
\* width above the pen's; the pen paints in activeColor with the pen width.
C9_ToolDecidesStroke ==
  rendered # << >> =>
    /\ activeTool = "eraser" =>
         rendered[1].op = "destination-out" /\ rendered[1].lineWidth > PenWidth
    /\ activeTool = "pen" =>
         /\ rendered[1].op = "source-over"
         /\ rendered[1].strokeStyle = activeColor
         /\ rendered[1].lineWidth = PenWidth

\* C10: selecting a tool changes no pixel and none of lastGesture,
\* lastPoint, isDrawing and the cooldown time, and calls no callback.
C10_ToolSwitchFrame ==
  [][ op' = "event" /\ activeTool' # activeTool =>
        /\ raster' = raster
        /\ lastGesture' = lastGesture /\ lastPoint' = lastPoint
        /\ isDrawing' = isDrawing /\ gestureCooldown' = gestureCooldown
        /\ gestureCalls' = << >> /\ colorCalls' = 0 /\ rendered' = << >> ]_vars

C10_Witness ==
  /\ op = "event" /\ activeTool = "eraser"
  /\ lastPoint # << >> /\ isDrawing /\ raster # {}

\* C11: a tick without a hand and a tick whose hand is classified IDLE do
\* the same to lastGesture, lastPoint, isDrawing and the callbacks: one
\* onGestureChange('IDLE') with both reset when lastGesture was not IDLE,
\* nothing otherwise.  A run of such ticks after DRAW calls onGestureChange
\* once, at its first tick.
C11_NoHandIsIdle ==
  /\ [][ GestureTick /\ GestureOf(input') = "IDLE" =>
           /\ lastGesture' = "IDLE"
           /\ gestureCalls' = IF lastGesture # "IDLE" THEN << "IDLE" >> ELSE << >>
           /\ lastPoint' = IF lastGesture # "IDLE" THEN << >> ELSE lastPoint
           /\ isDrawing' = IF lastGesture # "IDLE" THEN FALSE ELSE isDrawing
           /\ colorCalls' = 0 /\ rendered' = << >> ]_vars
  /\ [](script = IdleRunScript /\ pc >= 3 => tally.gestureCalls = 2)
  /\ [](script = EndToEndScript /\ pc = 1 => tally.gestureCalls = 0)

C11_Witness ==
  /\ script = IdleRunScript /\ pc = Len(script)
  /\ op = "tick" /\ input.kind = "noHand"
  /\ gestureCalls = << >> /\ tally.gestureCalls = 2
  /\ lastGesture = "IDLE" /\ lastPoint = << >> /\ ~isDrawing

\* A tick in which detectForVideo or detectGesture threw.
ErrorTick == op' = "tick" /\ input'.kind = "throws"

\* C12 as claimed: a tick in which detection throws is handled as an IDLE
\* tick: lastGesture becomes IDLE, onGestureChange('IDLE') is called and
\* isDrawing and lastPoint are reset when lastGesture was not IDLE; the
\* loop goes on.
C12_ErrorIsIdle ==
  [][ ErrorTick =>
        /\ lastGesture' = "IDLE"
        /\ gestureCalls' = IF lastGesture # "IDLE" THEN << "IDLE" >> ELSE << >>
        /\ lastGesture # "IDLE" => ~isDrawing' /\ lastPoint' = << >>
        /\ frameRequests' = 1 ]_vars

\* C12: a tick in which detection throws is skipped: it calls no callback,
\* strokes nothing and leaves lastGesture, isDrawing and lastPoint as they
\* were; the next frame is requested, and the tick after it goes on from
\* that state: DRAW, DRAW, error, DRAW strokes two segments with a single
\* onGestureChange call.
C12_ErrorSkipsTick ==
  /\ [][ ErrorTick =>
           /\ gestureCalls' = << >> /\ colorCalls' = 0 /\ rendered' = << >>
           /\ lastGesture' = lastGesture /\ currentGesture' = currentGesture
           /\ isDrawing' = isDrawing /\ lastPoint' = lastPoint
           /\ frameRequests' = 1 ]_vars
  /\ [](script = ErrorScript /\ pc = 3 =>
          lastGesture = "DRAW" /\ isDrawing /\ lastPoint # << >>)
  /\ [](script = ErrorScript /\ pc = Len(script) =>
          rendered # << >> /\ tally.segments = 2 /\ tally.gestureCalls = 1)

C12_Witness ==
  /\ script = ErrorScript /\ pc = 3
  /\ op = "tick" /\ input.kind = "throws"
  /\ lastGesture = "DRAW" /\ currentGesture = "DRAW" /\ gestureCalls = << >>

\* C13 as claimed: a tick whose gesture is not DRAW, a tick without a hand
\* included, leaves every pixel as it was.
C13_NonDrawKeepsRaster ==
  [][ GestureTick /\ GestureOf(input') # "DRAW" => raster' = raster ]_vars

\* C13: a tick whose gesture is not DRAW leaves every pixel as it was,
\* unless the canvas has not the size of the video, in which case the tick
\* resizes it, which wipes it.  The CLEAR gesture is reported and wipes
\* nothing; ink goes away only in a clear or in a tick that resizes.
C13_NonDrawKeepsPixels ==
  /\ [][ GestureTick /\ GestureOf(input') # "DRAW" =>
           raster' = IF canvas # video THEN {} ELSE raster ]_vars
  /\ [][ GestureTick /\ GestureOf(input') = "CLEAR" /\ lastGesture # "CLEAR" =>
           gestureCalls' = << "CLEAR" >> /\ clearTrigger' = clearTrigger ]_vars
  /\ [][ raster # {} /\ raster' = {} =>
           clearTrigger' # clearTrigger \/ (op' = "tick" /\ canvas' # canvas) ]_vars

C13_Witness ==
  /\ op = "tick" /\ GestureOf(input) = "CLEAR"
  /\ gestureCalls = << "CLEAR" >>
  /\ raster # {} /\ canvas = video

\* C14: a tick whose gesture is ERASE erases at the index fingertip: no ink
\* is left at the pixel the fingertip maps to.
C14_EraseGestureErases ==
  [][ GestureTick /\ GestureOf(input') = "ERASE" =>
        LET pt == ToPixel(At(input'.frame.lm, 8), canvas')
        IN  \A e \in raster' : e.at # pt ]_vars

\* C15: every run of predictWebcam, be it one that finds a resource
\* missing, one without canvas or context, one that gets through or one in
\* which detection throws, requests exactly one further frame: there is
\* always exactly one callback pending.
C15_OneFrameRequested ==
  /\ [][ op' = "tick" => frameRequests' = 1 ]_vars
  /\ [](frameRequests = 1)

C15_Witness ==
  /\ op = "tick" /\ input.kind = "throws"
  /\ frameRequests = 1
  /\ lastGesture = "DRAW"

\* C16: isDrawing is set only while lastGesture is DRAW, whatever ticks,
\* ticks without a hand, clears and ticks with an error came before.
C16_DrawingOnlyInDraw == isDrawing => lastGesture = "DRAW"

C16_Witness ==
  /\ isDrawing /\ lastGesture = "DRAW"
  /\ op = "tick" /\ input.kind = "throws"
  /\ clearTrigger > 0

\* C17: lastPoint is set only while lastGesture is DRAW, and is then the
\* point of the last DRAW tick of the current run; after any tick whose
\* gesture is not DRAW, one without a hand included, it is null.
C17_PointOnlyInDraw ==
  /\ [](lastPoint # << >> => lastGesture = "DRAW" /\ runPoint = lastPoint)
  /\ [][ GestureTick /\ GestureOf(input') # "DRAW" => lastPoint' = << >> ]_vars

C17_Witness ==
  /\ op = "tick" /\ input.kind = "noHand"
  /\ gestureCalls = << "IDLE" >> /\ lastPoint = << >>
  /\ raster # {}

\* C18: whenever isDrawing is set, lastPoint is set too, also right after a
\* clear in the middle of a run of DRAW ticks.
C18_DrawingHasPoint == isDrawing => lastPoint # << >>

C21_MissingResourceSkips ==
  [][ op' = "tick" /\ input'.kind \in {"notReady", "noContext"} =>
        /\ UNCHANGED <<lastGesture, lastPoint, isDrawing, gestureCooldown>>
        /\ gestureCalls' = << >> /\ colorCalls' = 0 /\ rendered' = << >>
        /\ UNCHANGED <<canvas, ctx, raster>>
        /\ frameRequests' = 1 ]_vars

C21_Witness ==
  /\ op = "tick" /\ input.kind = "noContext"
  /\ lastGesture = "DRAW" /\ isDrawing /\ lastPoint # << >>
  /\ raster # {} /\ canvas # video
  /\ frameRequests = 1

\* C22: a DRAW tick that finds lastPoint null records the mirrored pixel of
\* landmark 8 as it is, x = (1 - x) * width and y = y * height with the
\* size the canvas has in that tick, sets isDrawing and strokes nothing.
C22_FirstPointUnsmoothed ==
  [][ GestureTick /\ GestureOf(input') = "DRAW" /\ lastPoint = << >> =>
        LET tip == At(input'.frame.lm, 8)
        IN  /\ canvas' = video
            /\ lastPoint' = << [x |-> ((Grid - tip[1]) * video.w) \div Grid,
                                y |-> (tip[2] * video.h) \div Grid] >>
            /\ isDrawing' = TRUE
            /\ rendered' = << >> /\ raster' = IF canvas # video THEN {} ELSE raster
      ]_vars

C22_Witness ==
  /\ op = "tick" /\ GestureOf(input) = "DRAW"
  /\ At(input.frame.lm, 8) = <<6, 5, 0>>
  /\ gestureCalls = << "DRAW" >> /\ rendered = << >>
  /\ canvas = [w |-> 500, h |-> 500]
  /\ lastPoint = << [x |-> 200, y |-> 250] >> /\ isDrawing

\* The square of the distance in space between landmarks a and b of lms.
Dist2(lms, a, b) ==
  (lms[a + 1][1] - lms[b + 1][1]) * (lms[a + 1][1] - lms[b + 1][1])
    + (lms[a + 1][2] - lms[b + 1][2]) * (lms[a + 1][2] - lms[b + 1][2])
    + (lms[a + 1][3] - lms[b + 1][3]) * (lms[a + 1][3] - lms[b + 1][3])

\* Tip farther from the wrist (landmark 0) than the PIP and the MCP joint.
Beyond(lms, tip, pip, mcp) ==
  Dist2(lms, tip, 0) > Dist2(lms, pip, 0) /\ Dist2(lms, tip, 0) > Dist2(lms, mcp, 0)

\* C23: a finger counts as extended exactly when its tip is strictly
\* farther from the wrist, in space, than its PIP joint and than its MCP
\* joint, with landmarks 8/6/5, 12/10/9, 16/14/13 and 20/18/17; a tip as far
\* as one of the joints is not extended.  The gesture returned is the one
\* of these four flags.
C23_ExtendedIffBeyond ==
  cResult # "none" /\ ValidFrame(cInput) =>
    LET lms == cInput.lm
    IN  /\ isIndexExtended(lms)  <=> Beyond(lms, 8, 6, 5)
        /\ isMiddleExtended(lms) <=> Beyond(lms, 12, 10, 9)
        /\ isRingExtended(lms)   <=> Beyond(lms, 16, 14, 13)
        /\ isPinkyExtended(lms)  <=> Beyond(lms, 20, 18, 17)
        /\ cResult = GestureTable(Beyond(lms, 8, 6, 5), Beyond(lms, 12, 10, 9),
                                  Beyond(lms, 16, 14, 13), Beyond(lms, 20, 18, 17))

C23_Witness ==
  /\ cResult = "CLEAR" /\ ValidFrame(cInput)
  /\ Dist2(cInput.lm, 8, 0) = Dist2(cInput.lm, 6, 0)
  /\ Dist2(cInput.lm, 12, 0) = Dist2(cInput.lm, 9, 0)
  /\ Dist2(cInput.lm, 12, 0) > Dist2(cInput.lm, 10, 0)
  /\ cInput.lm[17][3] # 0 /\ ~isRingExtended(cInput.lm) /\ ~isPinkyExtended(cInput.lm)

\* C24: a tick that gets to compare the canvas with the video and finds
\* their sizes different gives the canvas the size of the video and sets
\* line width 8, round caps and round joins in that tick; every segment is
\* stroked on a canvas of the size of the video, with round caps and joins
\* and that width.
C24_ResizeReasserts ==
  /\ [][ op' = "tick" /\ input'.kind \notin {"notReady", "noContext"}
           /\ canvas # video =>
             /\ canvas' = video
             /\ ctx'.lineWidth = 8
             /\ ctx'.lineCap = "round" /\ ctx'.lineJoin = "round" ]_vars
  /\ [](rendered # << >> =>
          /\ canvas = video
          /\ rendered[1].lineCap = "round" /\ rendered[1].lineJoin = "round"
          /\ rendered[1].lineWidth = 8
          /\ ctx.lineCap = "round" /\ ctx.lineJoin = "round")

C24_Witness ==
  /\ op = "tick" /\ rendered # << >>
  /\ canvas = [w |-> 500, h |-> 500] /\ canvas = video
  /\ rendered[1].from.x > 300
  /\ ctx.lineCap = "round" /\ ctx.lineWidth = 8

=============================================================================
